---- MODULE Spec2Model ----
(***************************************************************************)
(* Model of gplugins/lumerical/recipes/taper_design_recipe.py:             *)
(* RoutingTaperDesignRecipe.__hash__ and RoutingTaperDesignRecipe.eval,    *)
(* and of to_lbr of gplugins/lumerical/utils.py.                           *)
(*                                                                         *)
(* Units.  Lengths held in a length-sweep table are in metres in the code; *)
(* here the unit of length is 0.1 micrometre, so that um (1e-6 m) is 10    *)
(* and cm (1e-2 m) is 100000 and every quantity is an integer.  A complex  *)
(* scattering parameter s is held as the integer p with |s|^2 = 10^p, so   *)
(* that 10*log10(|s|^2) is 10*p dB.                                        *)
(***************************************************************************)
EXTENDS Integers, Sequences, FiniteSets, TLC

VARIABLES
    self,                       \* the recipe instance whose eval runs
    other,                      \* a second recipe instance
    returned,                   \* digests __hash__ has returned, per instance
    calls,                      \* number of __hash__ calls made, per instance
    pc,                         \* position of eval
    exc,                        \* exception that left eval, or "none"
    cur,                        \* position of `for component in components`
    optimal_lengths,
    transmission_coefficients,
    reflection_coefficients,
    simulated_components,
    length_sweeps,
    log,                        \* records handed to gdsfactory's logger
    ind1,
    ind2,
    selected,                   \* index used by the branch taken at line 351
    layerstack,                 \* to_lbr: layerstack.to_dict().items()
    lbr_pc,                     \* to_lbr: position
    layer_index,                \* to_lbr: position of `for layer_name, ...`
    layers,                     \* to_lbr: children of the <layers> element
    doping_layers,              \* to_lbr: children of <doping_layers>
    warnings,                   \* to_lbr: logger.warning calls made
    process_file                \* to_lbr: what was written to process.lbr

vars == <<self, other, returned, calls, pc, exc, cur, optimal_lengths,
          transmission_coefficients, reflection_coefficients,
          simulated_components, length_sweeps, log, ind1, ind2, selected,
          layerstack, lbr_pc, layer_index, layers, doping_layers, warnings,
          process_file>>

evalVars == <<pc, exc, cur, optimal_lengths, transmission_coefficients,
              reflection_coefficients, simulated_components, length_sweeps,
              log, ind1, ind2, selected>>

hashVars == <<returned, calls>>

lbrVars == <<layerstack, lbr_pc, layer_index, layers, doping_layers, warnings,
             process_file>>

-----------------------------------------------------------------------------
(* Bounds of the model *)

MaxPts == 2          \* largest num_pts of a length sweep
MaxCalls == 2        \* __hash__ calls followed per instance

(* Program constants *)

um == 10             \* um = 1e-6 (line 30), in units of 0.1 micrometre
cm == 100000         \* cm = 1e-2 (line 31), in units of 0.1 micrometre
InitialLength == 5   \* length=5 of the swept geometries (line 275)

None == "None"

\* typing.get_args(WidthTypes): the shape variants swept by eval
WidthTypes == <<"sine", "linear", "parabolic">>

-----------------------------------------------------------------------------
(* Input spaces *)

LossRates == {3, 60000}          \* narrow_waveguide_routing_loss_per_cm
MaxReflections == {-70, -50}     \* max_reflection (dB)
S11Levels == {-8, -6}            \* log10 |s11|^2 of a sample
S21Levels == {-1, 0}             \* log10 |s21|^2 of a sample

\* RoutingTaperDesignIntent
RoutingTaperDesignIntent(rate, maxr, start, stop, npts) ==
    [narrow_waveguide_routing_loss_per_cm |-> rate,
     max_reflection |-> maxr,
     start_length |-> start,
     stop_length |-> stop,
     num_pts |-> npts]

\* self.cell(cross_section1, cross_section2, length, width_type)
cell(length, width_type) == [length |-> length, width_type |-> width_type]

\* components = [self.cell(..., length=5, width_type=wtype) for wtype in ...]
components == [i \in 1..Len(WidthTypes) |-> cell(InitialLength, WidthTypes[i])]

-----------------------------------------------------------------------------
(* __hash__ (lines 223-239) *)

\* int.bit_length()
RECURSIVE bit_length(_)
bit_length(n) == IF n = 0 THEN 0 ELSE 1 + bit_length(n \div 2)

\* int.to_bytes(length, byteorder="big") of a non-negative int that fits
RECURSIVE to_bytes(_, _)
to_bytes(n, length) ==
    IF length = 0 THEN <<>>
    ELSE Append(to_bytes(n \div 256, length - 1), n % 256)

\* the length argument of line 235: `7 // 8` binds before `+`
ByteLength(int_hash) == bit_length(int_hash) + 7 \div 8

\* decimal digits of a natural number, as ASCII codes
RECURSIVE Digits(_)
Digits(n) ==
    IF n < 10 THEN <<48 + n>> ELSE Append(Digits(n \div 10), 48 + (n % 10))

JsonInt(n) == IF n < 0 THEN <<45>> \o Digits(-n) ELSE Digits(n)

\* a float field holding an integral value: "3.0", "-70.0"
JsonFloat(n) == JsonInt(n) \o <<46, 48>>

\* one byte stands for the text of a field name (distinct per name, and
\* distinct from the ASCII codes of JSON's syntax)
KeyCode ==
    [narrow_waveguide_routing_loss_per_cm |-> 129,
     max_reflection |-> 130,
     start_length |-> 131,
     stop_length |-> 132,
     num_pts |-> 133,
     wavelength |-> 134,
     sparam_diff |-> 135]

JsonKey(name) == <<34, KeyCode[name], 34, 58>>

\* RoutingTaperDesignIntent.model_dump_json().encode("utf-8")
DumpDesignIntent(di) ==
    <<123>>
    \o JsonKey("narrow_waveguide_routing_loss_per_cm")
    \o JsonFloat(di.narrow_waveguide_routing_loss_per_cm) \o <<44>>
    \o JsonKey("max_reflection") \o JsonFloat(di.max_reflection) \o <<44>>
    \o JsonKey("start_length") \o JsonFloat(di.start_length) \o <<44>>
    \o JsonKey("stop_length") \o JsonFloat(di.stop_length) \o <<44>>
    \o JsonKey("num_pts") \o JsonInt(di.num_pts)
    \o <<125>>

\* SimulationSettingsLumericalEme.model_dump_json().encode("utf-8")
DumpSimulationSetup(ss) ==
    <<123>> \o JsonKey("wavelength") \o JsonFloat(ss.wavelength) \o <<125>>

\* ConvergenceSettingsLumericalEme.model_dump_json().encode("utf-8")
DumpConvergenceSetup(cs) ==
    <<123>> \o JsonKey("sparam_diff") \o JsonFloat(cs.sparam_diff) \o <<125>>

\* super().__hash__(): DesignRecipe's digest of cell, material map, layer stack
DesignRecipeHash(recipe) == recipe.base_hash

\* the stored results are fed to the digest as well
HashInputWithResults(recipe) ==
    to_bytes(recipe.base_hash, ByteLength(recipe.base_hash))
    \o DumpSimulationSetup(recipe.simulation_setup)
    \o DumpConvergenceSetup(recipe.convergence_setup)
    \o DumpDesignIntent(recipe.design_intent)
    \o JsonInt(recipe.component.length)

\* the design intent is not fed to the digest
HashInputWithoutIntent(recipe) ==
    to_bytes(recipe.base_hash, ByteLength(recipe.base_hash))
    \o DumpSimulationSetup(recipe.simulation_setup)
    \o DumpConvergenceSetup(recipe.convergence_setup)

\* what the four h.update calls feed to the digest, in order
HashInput(recipe) ==
    to_bytes(DesignRecipeHash(recipe), ByteLength(DesignRecipeHash(recipe)))
    \o DumpSimulationSetup(recipe.simulation_setup)
    \o DumpConvergenceSetup(recipe.convergence_setup)
    \o DumpDesignIntent(recipe.design_intent)

\* sum of i * bytes[i] for i in lo..hi, by halving
RECURSIVE WeightedSum(_, _, _)
WeightedSum(bytes, lo, hi) ==
    IF lo > hi THEN 0
    ELSE IF lo = hi THEN lo * bytes[lo]
    ELSE LET mid == (lo + hi) \div 2
         IN  WeightedSum(bytes, lo, mid) + WeightedSum(bytes, mid + 1, hi)

\* int.from_bytes(hashlib.sha1(bytes).digest(), "big"): SHA-1 is stood for
\* by a deterministic checksum of the bytes fed to it
sha1(bytes) == (Len(bytes) + WeightedSum(bytes, 1, Len(bytes))) % 65521

RecipeHash(recipe) == sha1(HashInput(recipe))

-----------------------------------------------------------------------------
(* Recipe instances *)

NoComponent == [length |-> 0, width_type |-> None]
NoSweep == <<>>
NoHash == -1

Recipe(base, ss, cs, di, comp, sweep, last) ==
    [base_hash |-> base,
     simulation_setup |-> ss,
     convergence_setup |-> cs,
     design_intent |-> di,
     component |-> comp,
     length_sweep |-> sweep,
     last_hash |-> last]

\* RoutingTaperDesignRecipe.__init__ (lines 200-221): results are unset
NewRecipe(base, ss, cs, di) ==
    Recipe(base, ss, cs, di, NoComponent, NoSweep, NoHash)

-----------------------------------------------------------------------------
(* The simulation adapter and pandas *)

\* np.linspace(start_length * um, stop_length * um, num_pts)
SweepLengths(start_length, stop_length, num_pts) ==
    [i \in 1..num_pts |->
        IF num_pts = 1 THEN start_length * um
        ELSE start_length * um
             + ((stop_length - start_length) * um * (i - 1)) \div (num_pts - 1)]

\* sim.get_length_sweep(start_length, stop_length, num_pts): the tables the
\* solver can return, one row per swept length, rows labelled 0..num_pts-1
get_length_sweep(start_length, stop_length, num_pts) ==
    {[i \in 1..num_pts |->
        [length |-> SweepLengths(start_length, stop_length, num_pts)[i],
         s11 |-> r[i],
         s21 |-> t[i]]] :
        r \in [1..num_pts -> S11Levels], t \in [1..num_pts -> S21Levels]}

\* 10 * np.log10(abs(s) ** 2) for |s|^2 = 10^p
ToDb(p) == 10 * p

\* length_sweep.loc[:, column]
LengthColumn(length_sweep) ==
    [k \in 1..Len(length_sweep) |-> length_sweep[k].length]
S21Column(length_sweep) ==
    [k \in 1..Len(length_sweep) |-> ToDb(length_sweep[k].s21)]
S11Column(length_sweep) ==
    [k \in 1..Len(length_sweep) |-> ToDb(length_sweep[k].s11)]

\* pandas.Series.__getitem__(key) for an integer key on a Series whose index
\* is the default RangeIndex: the key is a label, never a position
HasLabel(series, key) == key \in 0..(Len(series) - 1)
SeriesGet(series, key) == series[key + 1]

\* list[i] of a Python list
ListGet(list, i) == list[i + 1]

-----------------------------------------------------------------------------
(* The length-threshold search (lines 318-337) *)

StopIteration == -1

\* value > -di.narrow_waveguide_routing_loss_per_cm * length[k] / cm
MeetsLoss(value, rate, length_k) == value * cm > -(rate * length_k)

\* next(k for k, value in enumerate(list(s21)) if value > ... length[k] ...)
RECURSIVE ScanFrom(_, _, _, _)
ScanFrom(s21, length, rate, k) ==
    IF k >= Len(s21) THEN StopIteration
    ELSE IF MeetsLoss(s21[k + 1], rate, SeriesGet(length, k)) THEN k
    ELSE ScanFrom(s21, length, rate, k + 1)

\* enumerate(list(s21), 1): the scan starts one row late
FindIndexFromSecond(length_sweep, rate) ==
    ScanFrom(S21Column(length_sweep), LengthColumn(length_sweep), rate, 1)

FindIndex(length_sweep, rate) ==
    ScanFrom(S21Column(length_sweep), LengthColumn(length_sweep), rate, 0)

-----------------------------------------------------------------------------
(* The selection rule (lines 345-368) *)

\* min(list) of a non-empty list
RECURSIVE ListMin(_)
ListMin(list) ==
    IF Len(list) = 1 THEN list[1]
    ELSE LET m == ListMin(Tail(list))
         IN  IF list[1] <= m THEN list[1] ELSE m

\* list.index(value): the first position holding value
RECURSIVE IndexFrom(_, _, _)
IndexFrom(list, value, i) ==
    IF ListGet(list, i) = value THEN i ELSE IndexFrom(list, value, i + 1)

ListIndex(list, value) == IndexFrom(list, value, 0)

\* the least reflective candidate whatever the threshold
SelectIndexLeastReflective(lengths, reflections, max_reflection) ==
    ListIndex(reflections, ListMin(reflections))

\* the shortest candidate whatever its reflection
SelectIndexShortest(lengths, reflections, max_reflection) ==
    ListIndex(lengths, ListMin(lengths))

\* the branch of line 351
SelectIndex(lengths, reflections, max_reflection) ==
    LET i1 == ListIndex(lengths, ListMin(lengths))
        i2 == ListIndex(reflections, ListMin(reflections))
    IN  IF i1 = i2 \/ ListGet(reflections, i1) < max_reflection
        THEN i1 ELSE i2

-----------------------------------------------------------------------------
(* to_lbr (utils.py, lines 13-154) *)

MaxLayers == 2       \* most layers of a layer stack

\* layer_info["layer_type"]: the three types to_lbr names and one it does not
LayerTypes == {"grow", "background", "doping", "etch"}

\* layer_info["material"]: one material of the material map and one outside
Materials == {"si", "sin"}

\* material_map
material_map == [si |-> "Si (Silicon) - Palik"]

\* (background_doping_concentration, background_doping_ion) of a layer:
\* undoped, doped with a dopant CHARGE knows, doped with another ion
Dopings == {<<0, None>>, <<100, "n">>, <<100, "As">>}

\* one item of layerstack.to_dict().items(); the key is the position
LayerInfo(layer_name, layer_type, material, doping) ==
    [layer_name |-> layer_name,
     layer_type |-> layer_type,
     material |-> material,
     background_doping_concentration |-> doping[1],
     background_doping_ion |-> doping[2]]

LayerStacks ==
    UNION {{[i \in 1..n |-> LayerInfo(i, t[i], m[i], d[i])] :
               t \in [1..n -> LayerTypes], m \in [1..n -> Materials],
               d \in [1..n -> Dopings]} : n \in 0..MaxLayers}

\* lines 46-56: the process a layer is written with
ProcessOf(layer_type) ==
    IF layer_type = "grow" THEN "Grow"
    ELSE IF layer_type = "background" THEN "Background"
    ELSE IF layer_type = "doping" THEN "Implant"
    ELSE "Grow"

\* lines 52-55: the else branch logs a warning
WarnsFor(layer_type) == layer_type \notin {"grow", "background", "doping"}

\* material_map.get(layer_info["material"], "")
MaterialGet(material) ==
    IF material \in DOMAIN material_map THEN material_map[material] ELSE ""

\* lines 59-90: the <layer> element; the geometry attributes (positions,
\* thickness, sidewall angle, bias) are copied from the layer and left out
LayerEntry(layer_info, process) ==
    [name |-> layer_info.layer_name,
     process |-> process,
     pattern_material |->
         IF process = "Grow" THEN MaterialGet(layer_info.material) ELSE None,
     material |->
         IF process = "Background" THEN MaterialGet(layer_info.material)
         ELSE None]

\* lines 103-105: both doping fields are present and truthy
HasDoping(layer_info) ==
    /\ layer_info.background_doping_concentration # 0
    /\ layer_info.background_doping_ion # None

\* lines 115-118
DopantKnown(layer_info) == layer_info.background_doping_ion \in {"n", "p"}

\* lines 106-136: the doping <layer> element, named f"{layer_name}_doping"
DopingEntry(layer_info, process) ==
    [name |-> <<layer_info.layer_name, "_doping">>,
     dopant |-> layer_info.background_doping_ion,
     process |-> process,
     concentration |-> layer_info.background_doping_concentration]

\* lines 106-114: the doping <layer> element as it is when line 121 raises
PartialDopingEntry(layer_info) ==
    [name |-> None,
     dopant |-> None,
     process |-> None,
     concentration |-> 0]

\* lines 92-105: the iteration creates a doping <layer> element
WritesDoping(layer_info) ==
    /\ ProcessOf(layer_info.layer_type) \in {"Implant", "Background"}
    /\ HasDoping(layer_info)

\* to_lbr was not called
LbrIdle ==
    /\ layerstack = <<>>
    /\ lbr_pc = "IDLE"
    /\ layer_index = 1
    /\ layers = <<>>
    /\ doping_layers = <<>>
    /\ warnings = <<>>
    /\ process_file = None

-----------------------------------------------------------------------------
(* eval (lines 241-372) *)

Instances == {"self", "other"}

DefaultSimulationSetup == [wavelength |-> 1550]
DefaultConvergenceSetup == [sparam_diff |-> 1]

\* loss rate and reflection limit eval is run with: the defaults of lines
\* 168-169, and a steep loss line with a lenient reflection limit
IntentTargets == {<<3, -70>>, <<60000, -50>>}

\* the sweeps eval is run with: num_pts points from 1 um, 1 um apart
DesignIntents ==
    {RoutingTaperDesignIntent(target[1], target[2], 1, npts, npts) :
        target \in IntentTargets, npts \in 1..MaxPts}

EvalInit ==
    /\ pc = "PENDING"
    /\ exc = "none"
    /\ cur = 1
    /\ optimal_lengths = <<>>
    /\ transmission_coefficients = <<>>
    /\ reflection_coefficients = <<>>
    /\ simulated_components = <<>>
    /\ length_sweeps = <<>>
    /\ log = <<>>
    /\ ind1 = 0
    /\ ind2 = 0
    /\ selected = 0

Init ==
    /\ self \in {NewRecipe(300, DefaultSimulationSetup,
                           DefaultConvergenceSetup, di) : di \in DesignIntents}
    /\ other = self
    /\ returned = [i \in Instances |-> {}]
    /\ calls = [i \in Instances |-> 0]
    /\ EvalInit
    /\ LbrIdle

LogRecord(level, component) == [level |-> level, component |-> component]

\* where the for loop of line 287 goes after candidate c
AfterCandidate(c) ==
    IF c + 1 > Len(components) THEN "aggregate" ELSE "construct"

\* lines 265-286
Start ==
    /\ pc = "PENDING"
    /\ self' = [self EXCEPT !.last_hash = RecipeHash(self)]
    /\ pc' = IF Len(components) = 0 THEN "aggregate" ELSE "construct"
    /\ UNCHANGED <<lbrVars, other, hashVars, exc, cur, optimal_lengths,
                   transmission_coefficients, reflection_coefficients,
                   simulated_components, length_sweeps, log, ind1, ind2,
                   selected>>

\* lines 288-303: LumericalEmeSimulation(...) returns
ConstructOk ==
    /\ pc = "construct"
    /\ simulated_components' = Append(simulated_components, components[cur])
    /\ pc' = "sweep"
    /\ UNCHANGED <<lbrVars, self, other, hashVars, exc, cur, optimal_lengths,
                   transmission_coefficients, reflection_coefficients,
                   length_sweeps, log, ind1, ind2, selected>>

\* the failed candidate is kept in simulated_components
ConstructFailKept ==
    /\ pc = "construct"
    /\ log' = Append(log, LogRecord("error", components[cur]))
    /\ simulated_components' = Append(simulated_components, components[cur])
    /\ cur' = cur + 1
    /\ pc' = AfterCandidate(cur)
    /\ UNCHANGED <<lbrVars, self, other, hashVars, exc, optimal_lengths,
                   transmission_coefficients, reflection_coefficients,
                   length_sweeps, ind1, ind2, selected>>

\* lines 288-308: LumericalEmeSimulation(...) raises
ConstructFail ==
    /\ pc = "construct"
    /\ log' = Append(log, LogRecord("error", components[cur]))
    /\ cur' = cur + 1
    /\ pc' = AfterCandidate(cur)
    /\ UNCHANGED <<lbrVars, self, other, hashVars, exc, optimal_lengths,
                   transmission_coefficients, reflection_coefficients,
                   simulated_components, length_sweeps, ind1, ind2, selected>>

\* line 311: sim.get_length_sweep(...) raises, outside any try
SweepFail ==
    /\ pc = "sweep"
    /\ pc' = "error"
    /\ exc' = "SolverError"
    /\ UNCHANGED <<lbrVars, self, other, hashVars, cur, optimal_lengths,
                   transmission_coefficients, reflection_coefficients,
                   simulated_components, length_sweeps, log, ind1, ind2,
                   selected>>

\* lines 311-329: sim.get_length_sweep(...) returns a table and next(...)
\* yields an index
SearchFound ==
    /\ pc = "sweep"
    /\ \E length_sweep \in
              get_length_sweep(self.design_intent.start_length,
                               self.design_intent.stop_length,
                               self.design_intent.num_pts) :
          LET length == LengthColumn(length_sweep)
              s21 == S21Column(length_sweep)
              s11 == S11Column(length_sweep)
              ind == FindIndex(length_sweep,
                       self.design_intent.narrow_waveguide_routing_loss_per_cm)
          IN  /\ ind # StopIteration
              /\ length_sweeps' = Append(length_sweeps, length_sweep)
              /\ optimal_lengths' =
                     Append(optimal_lengths, SeriesGet(length, ind) \div um)
              /\ transmission_coefficients' =
                     Append(transmission_coefficients, SeriesGet(s21, ind))
              /\ reflection_coefficients' =
                     Append(reflection_coefficients, SeriesGet(s11, ind))
    /\ cur' = cur + 1
    /\ pc' = AfterCandidate(cur)
    /\ UNCHANGED <<lbrVars, self, other, hashVars, exc, simulated_components, log,
                   ind1, ind2, selected>>

\* lines 311-326, 330-337: sim.get_length_sweep(...) returns a table and
\* next(...) raises StopIteration
SearchFallback ==
    /\ pc = "sweep"
    /\ \E length_sweep \in
              get_length_sweep(self.design_intent.start_length,
                               self.design_intent.stop_length,
                               self.design_intent.num_pts) :
          LET s21 == S21Column(length_sweep)
              s11 == S11Column(length_sweep)
              ind == FindIndex(length_sweep,
                       self.design_intent.narrow_waveguide_routing_loss_per_cm)
          IN  /\ ind = StopIteration
              /\ length_sweeps' = Append(length_sweeps, length_sweep)
              /\ log' = Append(log, LogRecord("warning", components[cur]))
              /\ optimal_lengths' =
                     Append(optimal_lengths, self.design_intent.stop_length)
              /\ IF HasLabel(s21, -1) /\ HasLabel(s11, -1)
                 THEN /\ transmission_coefficients' =
                             Append(transmission_coefficients,
                                    SeriesGet(s21, -1))
                      /\ reflection_coefficients' =
                             Append(reflection_coefficients,
                                    SeriesGet(s11, -1))
                      /\ cur' = cur + 1
                      /\ pc' = AfterCandidate(cur)
                      /\ exc' = exc
                 ELSE \* s21[-1]: -1 is no label of the index
                      /\ pc' = "error"
                      /\ exc' = "KeyError"
                      /\ UNCHANGED <<transmission_coefficients,
                                     reflection_coefficients, cur>>
    /\ UNCHANGED <<lbrVars, self, other, hashVars, simulated_components, ind1, ind2,
                   selected>>

\* lines 339-343
Aggregate ==
    /\ pc = "aggregate"
    /\ log' = Append(log, LogRecord("info", NoComponent))
    /\ pc' = "select"
    /\ UNCHANGED <<lbrVars, self, other, hashVars, exc, cur, optimal_lengths,
                   transmission_coefficients, reflection_coefficients,
                   simulated_components, length_sweeps, ind1, ind2, selected>>

\* an empty result list is answered with the first swept geometry
SelectEmptyGuarded ==
    /\ pc = "select"
    /\ optimal_lengths = <<>>
    /\ self' = [self EXCEPT !.component = components[1]]
    /\ pc' = "DONE"
    /\ UNCHANGED <<lbrVars, other, hashVars, exc, cur, optimal_lengths,
                   transmission_coefficients, reflection_coefficients,
                   simulated_components, length_sweeps, log, ind1, ind2,
                   selected>>

\* line 348 with no evaluated candidate: min([]) raises ValueError
SelectEmpty ==
    /\ pc = "select"
    /\ optimal_lengths = <<>>
    /\ pc' = "error"
    /\ exc' = "ValueError"
    /\ UNCHANGED <<lbrVars, self, other, hashVars, cur, optimal_lengths,
                   transmission_coefficients, reflection_coefficients,
                   simulated_components, length_sweeps, log, ind1, ind2,
                   selected>>

\* lines 345-372
Select ==
    /\ pc = "select"
    /\ optimal_lengths # <<>>
    /\ ind1' = ListIndex(optimal_lengths, ListMin(optimal_lengths))
    /\ ind2' = ListIndex(reflection_coefficients,
                         ListMin(reflection_coefficients))
    /\ selected' = SelectIndex(optimal_lengths, reflection_coefficients,
                               self.design_intent.max_reflection)
    /\ self' = [self EXCEPT
                   !.component = cell(ListGet(optimal_lengths, selected'),
                                      ListGet(WidthTypes, selected')),
                   !.length_sweep = ListGet(length_sweeps, selected')]
    /\ pc' = "DONE"
    /\ UNCHANGED <<lbrVars, other, hashVars, exc, cur, optimal_lengths,
                   transmission_coefficients, reflection_coefficients,
                   simulated_components, length_sweeps, log>>

Next ==
    \/ Start
    \/ ConstructOk
    \/ ConstructFail
    \/ SweepFail
    \/ SearchFound
    \/ SearchFallback
    \/ Aggregate
    \/ SelectEmpty
    \/ Select

Spec == Init /\ [][Next]_vars

-----------------------------------------------------------------------------
(* Properties of eval *)

rate == self.design_intent.narrow_waveguide_routing_loss_per_cm

\* rows of the i-th stored table whose transmission is above the loss line
Qualifying(i) ==
    {k \in 1..Len(length_sweeps[i]) :
        10 * length_sweeps[i][k].s21 * cm
            > -(rate * length_sweeps[i][k].length)}

Least(S) == CHOOSE k \in S : \A j \in S : k <= j

\* first position (from 0) of the smallest element of a non-empty list
FirstMin(list) ==
    CHOOSE i \in 0..(Len(list) - 1) :
        /\ \A j \in 1..Len(list) : list[i + 1] <= list[j]
        /\ \A j \in 1..i : list[j] > list[i + 1]

ErrorRecords == {i \in 1..Len(log) : log[i].level = "error"}
WarningRecords == {i \in 1..Len(log) : log[i].level = "warning"}
FailedComponents == {log[i].component : i \in ErrorRecords}

\* C1: for every non-empty list of evaluated candidates and every
\* max_reflection, with ind1 the index of the smallest optimal length and
\* ind2 the index of the smallest reflection, eval selects ind1 when
\* ind1 = ind2 or reflection[ind1] < max_reflection and ind2 otherwise;
\* A(10,-80), B(5,-50) at -70 selects A, A(10,-80), B(5,-75) selects B, and a
\* candidate both shortest and least reflective is selected at any threshold.
C1_SelectionRule ==
    /\ SelectIndex(<<10, 5>>, <<-80, -50>>, -70) = 0
    /\ SelectIndex(<<10, 5>>, <<-80, -75>>, -70) = 1
    /\ \A threshold \in {-100, -70, 0} :
          SelectIndex(<<10, 5>>, <<-50, -80>>, threshold) = 1
    /\ pc = "DONE" =>
          LET i1 == FirstMin(optimal_lengths)
              i2 == FirstMin(reflection_coefficients)
          IN  /\ ind1 = i1
              /\ ind2 = i2
              /\ selected =
                    IF \/ i1 = i2
                       \/ reflection_coefficients[i1 + 1]
                              < self.design_intent.max_reflection
                    THEN i1 ELSE i2

\* eval ended with the shortest candidate not the least reflective and not
\* below max_reflection, so the least reflective one was selected
C1_Witness ==
    /\ pc = "DONE"
    /\ ind1 # ind2
    /\ reflection_coefficients[ind1 + 1] >= self.design_intent.max_reflection
    /\ selected = ind2

\* C2: for every stored sweep with at least one sample whose transmission
\* (dB) exceeds -rate * length / cm, the search records the length (in um),
\* transmission and reflection of the smallest such row, and of no later one.
C2_FirstCrossing ==
    \A i \in 1..Len(length_sweeps) :
        Qualifying(i) # {} =>
            LET row == length_sweeps[i][Least(Qualifying(i))]
            IN  /\ i <= Len(optimal_lengths)
                /\ i <= Len(transmission_coefficients)
                /\ i <= Len(reflection_coefficients)
                /\ optimal_lengths[i] * um = row.length
                /\ transmission_coefficients[i] = 10 * row.s21
                /\ reflection_coefficients[i] = 10 * row.s11

\* a search that passed over a first row below the loss line and recorded
\* the second row
C2_Witness ==
    \E i \in 1..Len(length_sweeps) :
        /\ Qualifying(i) # {}
        /\ Least(Qualifying(i)) > 1
        /\ i <= Len(reflection_coefficients)

\* C3: when no sample of a candidate's sweep meets the loss rate, the search
\* records (stop_length, last transmission, last reflection) for it, logs
\* exactly one warning for it, and eval goes on (the search raises nothing).
C3_FallbackRecorded ==
    \A i \in 1..Len(length_sweeps) :
        Qualifying(i) = {} =>
            LET table == length_sweeps[i]
                last == table[Len(table)]
            IN  /\ exc # "KeyError"
                /\ i <= Len(optimal_lengths)
                /\ i <= Len(transmission_coefficients)
                /\ i <= Len(reflection_coefficients)
                /\ optimal_lengths[i] = self.design_intent.stop_length
                /\ transmission_coefficients[i] = 10 * last.s21
                /\ reflection_coefficients[i] = 10 * last.s11
                /\ Cardinality({w \in WarningRecords :
                       log[w].component = simulated_components[i]}) = 1

\* the candidates whose construction did not fail, in sweep order
Survivors == SelectSeq(components, LAMBDA c : c \notin FailedComponents)

\* a step in which the construction of the current candidate raised
ConstructionRaised ==
    /\ pc = "construct"
    /\ Len(log') = Len(log) + 1
    /\ log'[Len(log')].level = "error"

\* C4: a candidate whose simulation construction raises adds no entry to
\* the optimal-length, transmission, reflection and length-sweep lists, has
\* exactly one error logged, does not stop the later candidates from being
\* simulated, and the selection is made over the surviving candidates only.
C4_PartialFailure ==
    /\ [][ConstructionRaised =>
            /\ log' = Append(log, LogRecord("error", components[cur]))
            /\ UNCHANGED <<optimal_lengths, transmission_coefficients,
                           reflection_coefficients, length_sweeps,
                           simulated_components>>
            /\ cur' = cur + 1
            /\ pc' = IF cur < Len(components) THEN "construct"
                     ELSE "aggregate"]_vars
    /\ [](/\ \A c \in FailedComponents :
                /\ Cardinality({e \in ErrorRecords : log[e].component = c}) = 1
                /\ \A i \in 1..Len(simulated_components) :
                      simulated_components[i] # c
          /\ pc \in {"aggregate", "select", "DONE"} =>
                /\ simulated_components = Survivors
                /\ Len(optimal_lengths) = Len(Survivors)
                /\ Len(transmission_coefficients) = Len(Survivors)
                /\ Len(reflection_coefficients) = Len(Survivors)
                /\ Len(length_sweeps) = Len(Survivors)
          /\ pc = "DONE" =>
                /\ selected \in 0..(Len(Survivors) - 1)
                /\ self.length_sweep = length_sweeps[selected + 1]
                /\ self.component.length = optimal_lengths[selected + 1])

\* eval ended with one of the three candidates failed and two evaluated
C4_Witness ==
    /\ pc = "DONE"
    /\ Cardinality(FailedComponents) = 1
    /\ Len(optimal_lengths) = Len(components) - 1

\* C5: at DONE the recipe holds one selected geometry and one length-sweep
\* table of the same candidate: the geometry has the width_type of the
\* candidate whose simulation gave the stored table and the winning length.
C5_SameCandidate ==
    pc = "DONE" =>
        /\ self.length_sweep = length_sweeps[selected + 1]
        /\ self.component.length = optimal_lengths[selected + 1]
        /\ self.component.width_type
               = simulated_components[selected + 1].width_type

\* C6: for every candidate whose sweep was searched, on the success path and
\* on the fallback path alike, the recorded optimal length, transmission and
\* reflection come from one and the same row of its length-sweep table.
C6_SameIndex ==
    \A i \in 1..Len(length_sweeps) :
        /\ i <= Len(optimal_lengths)
        /\ i <= Len(transmission_coefficients)
        /\ i <= Len(reflection_coefficients)
        /\ \E k \in 1..Len(length_sweeps[i]) :
              /\ optimal_lengths[i] * um = length_sweeps[i][k].length
              /\ transmission_coefficients[i] = 10 * length_sweeps[i][k].s21
              /\ reflection_coefficients[i] = 10 * length_sweeps[i][k].s11

\* C9: when the solver fails for one candidate after its simulation was
\* constructed (get_length_sweep raises), the candidate is skipped, an error
\* is logged and the sweep continues with the remaining candidates.
C9_SweepFailureSkipped ==
    [][(pc = "sweep" /\ length_sweeps' = length_sweeps) =>
          /\ log' = Append(log, LogRecord("error", components[cur]))
          /\ cur' = cur + 1
          /\ pc' = IF cur < Len(components) THEN "construct"
                   ELSE "aggregate"]_vars

AllFailed == Cardinality(FailedComponents) = Len(components)

\* C12: if every candidate's simulation construction fails, eval does not
\* reach DONE: all candidates are attempted with one error logged for each,
\* an unhandled error is then raised by the selection step and ends eval,
\* and the stored component and length_sweep are left as they were.
C12_TotalFailure ==
    /\ [](AllFailed =>
            /\ pc \in {"aggregate", "select", "error"}
            /\ cur = Len(components) + 1
            /\ \A c \in 1..Len(components) :
                  Cardinality({e \in ErrorRecords :
                                  log[e].component = components[c]}) = 1
            /\ simulated_components = <<>>
            /\ optimal_lengths = <<>>
            /\ pc = "error" => exc = "ValueError")
    /\ [][AllFailed' =>
            /\ self'.component = self.component
            /\ self'.length_sweep = self.length_sweep]_vars
    /\ [][(AllFailed /\ pc = "select") =>
            (pc' = "error" /\ exc' # "none")]_vars
    /\ [][~(AllFailed /\ pc = "error")]_vars

\* all three constructions failed and the selection step raised
C12_Witness ==
    /\ AllFailed
    /\ pc = "error"
    /\ exc = "ValueError"
    /\ Cardinality(ErrorRecords) = Len(components)
    /\ self.component = NoComponent

\* C13: eval records last_hash from the fingerprint before any candidate is
\* simulated, never modifies a fingerprinted input (design intent, simulation
\* settings, convergence settings) and writes only last_hash, component and
\* length_sweep; so in every state from the first simulation to DONE
\* last_hash equals the recipe's current fingerprint.  The equality is
\* stated where it can change: it holds when the first construction is
\* about to run and after every step that leaves PENDING or writes the
\* recipe, and the steps in between write neither side of it.
C13_FreshAfterRun ==
    /\ [](pc = "PENDING" =>
            /\ simulated_components = <<>>
            /\ length_sweeps = <<>>
            /\ log = <<>>)
    /\ []((pc = "construct" /\ cur = 1) =>
            self.last_hash = RecipeHash(self))
    /\ [](pc # "PENDING" => self.last_hash # NoHash)
    /\ [][(pc = "PENDING" \/ self' # self) =>
            self'.last_hash = RecipeHash(self')]_vars
    /\ [][/\ self'.design_intent = self.design_intent
          /\ self'.simulation_setup = self.simulation_setup
          /\ self'.convergence_setup = self.convergence_setup
          /\ self' = [self EXCEPT !.last_hash = self'.last_hash,
                                  !.component = self'.component,
                                  !.length_sweep = self'.length_sweep]]_vars

\* eval reached DONE, stored a geometry and a table, and last_hash is the
\* fingerprint of the recipe as it is now
C13_Witness ==
    /\ pc = "DONE"
    /\ self.component # NoComponent
    /\ self.length_sweep # NoSweep
    /\ self.last_hash # NoHash
    /\ self.last_hash = RecipeHash(self)

-----------------------------------------------------------------------------
(* Fingerprints of recipe instances *)

BaseHashes == {0, 300}
SimulationSetups == {[wavelength |-> w] : w \in {1310, 1550}}
ConvergenceSetups == {[sparam_diff |-> d] : d \in {1, 2}}

\* design intents that differ field by field
IntentSpace ==
    {RoutingTaperDesignIntent(r, maxr, start, stop, npts) :
        r \in LossRates, maxr \in MaxReflections, start \in {1, 2},
        stop \in {2, 3}, npts \in {1, MaxPts}}

\* the recipe once eval has run to DONE on sweeps without loss or spread:
\* every candidate is evaluated alike and the first one is selected
Evaluated(recipe) ==
    LET di == recipe.design_intent
        table == [i \in 1..di.num_pts |->
                    [length |-> SweepLengths(di.start_length, di.stop_length,
                                             di.num_pts)[i],
                     s11 |-> -8,
                     s21 |-> 0]]
        ind == FindIndex(table, di.narrow_waveguide_routing_loss_per_cm)
        lengths == [c \in 1..Len(components) |->
                      SeriesGet(LengthColumn(table), ind) \div um]
        reflections == [c \in 1..Len(components) |->
                          SeriesGet(S11Column(table), ind)]
        sel == SelectIndex(lengths, reflections, di.max_reflection)
    IN  [recipe EXCEPT
            !.last_hash = RecipeHash(recipe),
            !.component = cell(ListGet(lengths, sel), ListGet(WidthTypes, sel)),
            !.length_sweep = table]

FreshRecipes ==
    {NewRecipe(b, ss, cs, di) :
        b \in BaseHashes, ss \in SimulationSetups, cs \in ConvergenceSetups,
        di \in IntentSpace}

RecipeSpace == FreshRecipes \cup {Evaluated(r) : r \in FreshRecipes}

\* the fingerprinted inputs of a recipe, field by field
Configuration(recipe) ==
    [base_hash |-> recipe.base_hash,
     wavelength |-> recipe.simulation_setup.wavelength,
     sparam_diff |-> recipe.convergence_setup.sparam_diff,
     narrow_waveguide_routing_loss_per_cm |->
         recipe.design_intent.narrow_waveguide_routing_loss_per_cm,
     max_reflection |-> recipe.design_intent.max_reflection,
     start_length |-> recipe.design_intent.start_length,
     stop_length |-> recipe.design_intent.stop_length,
     num_pts |-> recipe.design_intent.num_pts]

DifferingFields(r1, r2) ==
    {f \in DOMAIN Configuration(r1) :
        Configuration(r1)[f] # Configuration(r2)[f]}

Instance(inst) == IF inst = "self" THEN self ELSE other

\* two instances, configured alike or differing in one fingerprinted field,
\* each fresh or already evaluated
InitHash ==
    /\ self \in RecipeSpace
    /\ other \in {r \in RecipeSpace : Cardinality(DifferingFields(self, r)) <= 1}
    /\ returned = [i \in Instances |-> {}]
    /\ calls = [i \in Instances |-> 0]
    /\ EvalInit
    /\ LbrIdle

\* hash(recipe) called on an idle instance
HashCall(inst) ==
    /\ pc = "PENDING"
    /\ calls[inst] < MaxCalls
    /\ calls' = [calls EXCEPT ![inst] = @ + 1]
    /\ returned' = [returned EXCEPT ![inst] = @ \cup {RecipeHash(Instance(inst))}]
    /\ UNCHANGED <<self, other, evalVars, lbrVars>>

NextHash == \E inst \in Instances : HashCall(inst)

SpecHash == InitHash /\ [][NextHash]_vars

\* C7: __hash__ is a function of the superclass digest, the simulation
\* settings, the convergence settings and the design intent only: every
\* digest an instance returns is the digest of a fresh recipe of the same
\* configuration, so repeated calls agree, and instances configured alike
\* agree whatever results they hold.
C7_Deterministic ==
    /\ \A inst \in Instances :
          LET r == Instance(inst)
          IN  returned[inst] \subseteq
                  {RecipeHash(NewRecipe(r.base_hash, r.simulation_setup,
                                        r.convergence_setup, r.design_intent))}
    /\ DifferingFields(self, other) = {} =>
          Cardinality(returned["self"] \cup returned["other"]) <= 1

\* two instances configured alike, one evaluated and one not, were both
\* fingerprinted, one of them twice
C7_Witness ==
    /\ DifferingFields(self, other) = {}
    /\ self.component # other.component
    /\ self.last_hash # other.last_hash
    /\ calls["self"] >= 2
    /\ calls["other"] >= 1
    /\ returned["self"] = returned["other"]

\* C8: two configurations that differ in exactly one design-intent field,
\* simulation setting or convergence setting feed different bytes to the
\* digest.
C8_Sensitive ==
    (/\ Cardinality(DifferingFields(self, other)) = 1
     /\ self.base_hash = other.base_hash)
        => HashInput(self) # HashInput(other)

\* both instances were fingerprinted and differ in max_reflection only
C8_Witness ==
    /\ DifferingFields(self, other) = {"max_reflection"}
    /\ calls["self"] >= 1
    /\ calls["other"] >= 1

-----------------------------------------------------------------------------
(* to_lbr: the run *)

\* to_lbr(material_map, layerstack) is entered (lines 35-43); no recipe is
\* evaluated or fingerprinted meanwhile
InitLbr ==
    /\ layerstack \in LayerStacks
    /\ lbr_pc = "loop"
    /\ layer_index = 1
    /\ layers = <<>>
    /\ doping_layers = <<>>
    /\ warnings = <<>>
    /\ process_file = None
    /\ self = NewRecipe(300, DefaultSimulationSetup, DefaultConvergenceSetup,
                        RoutingTaperDesignIntent(3, -70, 1, 1, 1))
    /\ other = self
    /\ returned = [i \in Instances |-> {}]
    /\ calls = [i \in Instances |-> 0]
    /\ EvalInit

\* lines 44-136: one iteration of the loop that runs to its end
LayerIteration ==
    /\ lbr_pc = "loop"
    /\ layer_index <= Len(layerstack)
    /\ LET layer_info == layerstack[layer_index]
           process == ProcessOf(layer_info.layer_type)
       IN  /\ WritesDoping(layer_info) => DopantKnown(layer_info)
           /\ warnings' =
                  IF WarnsFor(layer_info.layer_type)
                  THEN Append(warnings,
                              [layer_name |-> layer_info.layer_name,
                               layer_type |-> layer_info.layer_type])
                  ELSE warnings
           /\ layers' =
                  IF process \in {"Grow", "Background"}
                  THEN Append(layers, LayerEntry(layer_info, process))
                  ELSE layers
           /\ doping_layers' =
                  IF WritesDoping(layer_info)
                  THEN Append(doping_layers, DopingEntry(layer_info, process))
                  ELSE doping_layers
    /\ layer_index' = layer_index + 1
    /\ UNCHANGED <<layerstack, lbr_pc, process_file, self, other, hashVars,
                   evalVars>>

\* lines 44-123: an iteration that raises ValueError at line 121
LayerIterationRaises ==
    /\ lbr_pc = "loop"
    /\ layer_index <= Len(layerstack)
    /\ LET layer_info == layerstack[layer_index]
           process == ProcessOf(layer_info.layer_type)
       IN  /\ WritesDoping(layer_info)
           /\ ~DopantKnown(layer_info)
           /\ layers' =
                  IF process \in {"Grow", "Background"}
                  THEN Append(layers, LayerEntry(layer_info, process))
                  ELSE layers
           /\ doping_layers' =
                  Append(doping_layers, PartialDopingEntry(layer_info))
    /\ lbr_pc' = "ValueError"
    /\ UNCHANGED <<layerstack, layer_index, warnings, process_file, self,
                   other, hashVars, evalVars>>

\* lines 138-154: the loop is over; an empty <doping_layers> is removed and
\* the document is written to process.lbr
WriteProcessFile ==
    /\ lbr_pc = "loop"
    /\ layer_index > Len(layerstack)
    /\ process_file' =
           [process_name |-> "process",
            layers |-> layers,
            doping_layers |->
                IF Len(doping_layers) = 0 THEN <<>> ELSE <<doping_layers>>]
    /\ lbr_pc' = "DONE"
    /\ UNCHANGED <<layerstack, layer_index, layers, doping_layers, warnings,
                   self, other, hashVars, evalVars>>

NextLbr ==
    \/ LayerIteration
    \/ LayerIterationRaises
    \/ WriteProcessFile

SpecLbr == InitLbr /\ [][NextLbr]_vars

\* the layers of the stack whose layer_type is neither grow nor background
OtherLayers ==
    {i \in 1..Len(layerstack) :
        layerstack[i].layer_type \notin {"grow", "background"}}

\* C11: for every layer stack, the written process description holds a layer
\* entry only for layers of layer_type grow or background; every layer of
\* another type has no layer entry and has a warning logged for it.
C11_OnlyGrowAndBackground ==
    lbr_pc = "DONE" =>
        \A i \in OtherLayers :
            /\ \A k \in 1..Len(process_file.layers) :
                  process_file.layers[k].name # layerstack[i].layer_name
            /\ \E w \in 1..Len(warnings) :
                  warnings[w].layer_name = layerstack[i].layer_name

====
